---- MODULE Spec2Model ----
(***************************************************************************)
(* Model of gas-guru (src/mod.py): the trimix parser and the four depth    *)
(* formulas, called on the parsed mix as the command-line driver does.     *)
(*                                                                         *)
(* Python floats are modelled as exact rationals <<numerator, denominator>>*)
(* in lowest terms with a positive denominator; Python ints are integers.  *)
(* A local variable that is not yet bound holds Unbound.                   *)
(***************************************************************************)
EXTENDS Integers, Sequences, FiniteSets, TLC

(***************************************************************************)
(* Bounds of the model.                                                    *)
(***************************************************************************)
\* longest command-line argument enumerated exhaustively over Alphabet
MaxLen == 2
\* deepest depth a search loop may step to
MaxDepth == 150

(***************************************************************************)
(* Rational arithmetic (the float operators + - * / >= of the source).     *)
(***************************************************************************)
\* Every operator evaluates its operands once, to a pair, before it uses
\* them (Once2), so that a nested expression costs no more than in Python.
Once2(Op(_, _), x, y) == CHOOSE r \in { Op(a, b) : a \in {x}, b \in {y} } : TRUE

\* Body with its parameter bound to the value of x: a Python assignment
Bind(x, Body(_)) == CHOOSE r \in { Body(a) : a \in {x} } : TRUE

Abs(x) == IF x < 0 THEN -x ELSE x

RECURSIVE GCD(_, _)
GCD(a, b) == IF b = 0 THEN a ELSE Once2(GCD, b, a % b)

NormalForm(n, d) ==
    LET g == GCD(Abs(n), Abs(d))
        s == IF d < 0 THEN -1 ELSE 1
    IN  << (s * n) \div g, (s * d) \div g >>

\* the float n / d
Rat(n, d) == Once2(NormalForm, n, d)

FromInt(n) == << n, 1 >>
Zero == << 0, 1 >>
One == << 1, 1 >>
Unbound == << 0, 0 >>

AddPairs(a, b) ==
    LET g == GCD(a[2], b[2])
        l == (a[2] \div g) * b[2]
    IN  Rat(a[1] * (l \div a[2]) + b[1] * (l \div b[2]), l)

SubPairs(a, b) == AddPairs(a, << -b[1], b[2] >>)

MulPairs(a, b) ==
    LET g1 == GCD(Abs(a[1]), b[2])
        g2 == GCD(Abs(b[1]), a[2])
    IN  IF a[1] = 0 \/ b[1] = 0 THEN Zero
        ELSE Rat((a[1] \div g1) * (b[1] \div g2), (a[2] \div g2) * (b[2] \div g1))

\* b is not zero
DivPairs(a, b) == MulPairs(a, Rat(b[2], b[1]))

GeqPairs(a, b) == SubPairs(a, b)[1] >= 0

RAdd(x, y) == Once2(AddPairs, x, y)
RSub(x, y) == Once2(SubPairs, x, y)
RMul(x, y) == Once2(MulPairs, x, y)
RDiv(x, y) == Once2(DivPairs, x, y)
RGeq(x, y) == Once2(GeqPairs, x, y)
RLt(x, y) == ~RGeq(x, y)

(***************************************************************************)
(* str.split, int() and parse_trimix.  A string is a sequence of           *)
(* one-character strings.                                                  *)
(***************************************************************************)
DigitChars == {"0", "1", "2", "3", "4", "5", "6", "7", "8", "9"}

DigitVal(c) ==
    CASE c = "0" -> 0 [] c = "1" -> 1 [] c = "2" -> 2 [] c = "3" -> 3
      [] c = "4" -> 4 [] c = "5" -> 5 [] c = "6" -> 6 [] c = "7" -> 7
      [] c = "8" -> 8 [] c = "9" -> 9

Contains(s, c) == \E i \in 1..Len(s) : s[i] = c

\* trimix.split('/'): the pieces between the separators, empty ones included
RECURSIVE Split(_, _)
Split(s, sep) ==
    IF ~Contains(s, sep) THEN << s >>
    ELSE LET i == CHOOSE k \in 1..Len(s) :
                      s[k] = sep /\ \A j \in 1..(k - 1) : s[j] # sep
         IN  << SubSeq(s, 1, i - 1) >> \o Split(SubSeq(s, i + 1, Len(s)), sep)

RECURSIVE DigitsValue(_)
DigitsValue(s) ==
    IF s = << >> THEN 0
    ELSE 10 * DigitsValue(SubSeq(s, 1, Len(s) - 1)) + DigitVal(s[Len(s)])

\* int(tok): an optional sign, then one or more decimal digits; anything
\* else raises ValueError
ParseInt(tok) ==
    LET signed == Len(tok) > 0 /\ tok[1] \in {"-", "+"}
        body   == IF signed THEN SubSeq(tok, 2, Len(tok)) ELSE tok
        valid  == Len(body) > 0 /\ \A i \in 1..Len(body) : body[i] \in DigitChars
    IN  IF ~valid THEN [ok |-> FALSE, val |-> 0]
        ELSE [ok |-> TRUE,
              val |-> IF signed /\ tok[1] = "-" THEN -DigitsValue(body)
                                                ELSE DigitsValue(body)]

\* parse_trimix with "n2 = 100 - o2" in both branches
parse_trimix_forgets_he(s) ==
    IF Contains(s, "/")
    THEN LET toks == Split(s, "/")
         IN  IF Len(toks) # 2 \/ ~ParseInt(toks[1]).ok \/ ~ParseInt(toks[2]).ok
             THEN [raised |-> TRUE, o2 |-> 0, he |-> 0, n2 |-> 0]
             ELSE LET o2 == ParseInt(toks[1]).val
                      he == ParseInt(toks[2]).val
                  IN  [raised |-> FALSE, o2 |-> o2, he |-> he, n2 |-> 100 - o2]
    ELSE IF ~ParseInt(s).ok
         THEN [raised |-> TRUE, o2 |-> 0, he |-> 0, n2 |-> 0]
         ELSE LET o2 == ParseInt(s).val
              IN  [raised |-> FALSE, o2 |-> o2, he |-> 0, n2 |-> 100 - o2]

parse_trimix(s) ==
    IF Contains(s, "/")
    THEN LET toks == Split(s, "/")
         IN  IF Len(toks) # 2 \/ ~ParseInt(toks[1]).ok \/ ~ParseInt(toks[2]).ok
             THEN [raised |-> TRUE, o2 |-> 0, he |-> 0, n2 |-> 0]
             ELSE LET o2 == ParseInt(toks[1]).val
                      he == ParseInt(toks[2]).val
                  IN  [raised |-> FALSE, o2 |-> o2, he |-> he, n2 |-> 100 - o2 - he]
    ELSE IF ~ParseInt(s).ok
         THEN [raised |-> TRUE, o2 |-> 0, he |-> 0, n2 |-> 0]
         ELSE LET o2 == ParseInt(s).val
              IN  [raised |-> FALSE, o2 |-> o2, he |-> 0, n2 |-> 100 - o2]

(***************************************************************************)
(* Inputs.                                                                 *)
(***************************************************************************)
Alphabet == {"0", "1", "5", "/", "-", "x"}

StringsUpTo(n) == UNION { [1..k -> Alphabet] : k \in 0..n }

\* command-line arguments longer than MaxLen
Examples ==
    { << "1", "8", "/", "3", "5" >>, << "2", "1", "/", "0" >>,
      << "1", "0", "/", "7", "0" >>,
      << "6", "0", "/", "5", "0" >>, << "1", "0", "0" >>,
      << "1", "/", "5", "/", "0" >> }

TrimixInputs == StringsUpTo(MaxLen) \cup Examples

(***************************************************************************)
(* Float literals of the source and of the driver.                         *)
(***************************************************************************)
SPECIFIC_GRAVITY_O2 == Rat(1429, 1000)
SPECIFIC_GRAVITY_N2 == Rat(12506, 10000)
SPECIFIC_GRAVITY_HE == Rat(1786, 10000)

\* targets_po2 of the driver
TargetsPO2 == { Rat(11, 10), Rat(14, 10), Rat(16, 10) }

\* target_densities of the driver, and one below every surface density
TargetDensities == { Rat(1, 1), Rat(52, 10), Rat(62, 10) }

\* set points of the driver's sweep (1.0, 1.3), one below, and two that
\* cannot be reached at 10 m
SetPoints == { Rat(7, 10), Rat(1, 1), Rat(13, 10), Rat(2, 1), Rat(25, 10) }

(***************************************************************************)
(* calculate_depth_for_po2 and find_depth_for_30m_end.  A float division   *)
(* by zero raises ZeroDivisionError in Python.                             *)
(***************************************************************************)
calculate_depth_for_po2(target_po2, oxygen_percentage) ==
    LET frac_o2_ == RDiv(FromInt(oxygen_percentage), FromInt(100))
    IN  IF frac_o2_ = Zero
        THEN [raised |-> TRUE, value |-> Unbound]
        ELSE [raised |-> FALSE,
              value |-> RMul(RSub(RDiv(target_po2, frac_o2_), One), FromInt(10))]

find_depth_for_30m_end(n2_percentage_) ==
    LET frac_n2_mix == RDiv(FromInt(n2_percentage_), FromInt(100))
        target_ppn2_air_30m == RMul(Rat(79, 100), FromInt(4))
    IN  IF frac_n2_mix = Zero
        THEN [raised |-> TRUE, value |-> Unbound]
        ELSE [raised |-> FALSE,
              value |-> RMul(RSub(RDiv(target_ppn2_air_30m, frac_n2_mix), One),
                             FromInt(10))]

(***************************************************************************)
(* The pieces of the two density searches.                                 *)
(***************************************************************************)
\* the pressure without the atmosphere at the surface: depth / 10
PressureAtDepth_no_surface(d) == RDiv(FromInt(d), FromInt(10))

\* 1 + depth / 10, lines 93 and 124
PressureAtDepth(d) == RAdd(One, RDiv(FromInt(d), FromInt(10)))

\* pressure * (frac_o2 * SG_O2 + frac_n2 * SG_N2 + frac_he * SG_HE)
GasDensity(pressure, fo2, fn2, fhe) ==
    RMul(pressure,
         RAdd(RAdd(RMul(fo2, SPECIFIC_GRAVITY_O2), RMul(fn2, SPECIFIC_GRAVITY_N2)),
              RMul(fhe, SPECIFIC_GRAVITY_HE)))

\* "if density >= target_density"
DensityReached(dens, target_density) == RGeq(dens, target_density)

\* the check with ">" for ">="
SetPointUnreachable_strict(fo2) == ~RGeq(One, fo2)

\* "if frac_o2 >= 1.0: raise ValueError"
SetPointUnreachable(fo2) == RGeq(fo2, One)

\* "depth = 0" of calculate_depth_for_gas_density
gd_initial_depth == 0

\* "depth = 10" of calculate_depth_for_sp_and_density
sp_initial_depth == 10

\* a step of 2 m, and no step
gd_next_depth_by_two(d) == d + 2
gd_next_depth_stuck(d) == d

\* "depth += 1" of calculate_depth_for_gas_density
gd_next_depth(d) == d + 1

\* a step of 2 m
sp_next_depth_by_two(d) == d + 2

\* "depth += 1" of calculate_depth_for_sp_and_density
sp_next_depth(d) == d + 1

\* the fractions calculate_depth_for_gas_density derives from the percentages
gd_fractions(o2p, hep) ==
    LET fo2 == RDiv(FromInt(o2p), FromInt(100))
        fhe == RDiv(FromInt(hep), FromInt(100))
    IN  [frac_o2 |-> fo2, frac_he |-> fhe, frac_n2 |-> RSub(RSub(One, fo2), fhe)]

\* the fractions calculate_depth_for_sp_and_density uses once the set point
\* check has passed, given frac_o2
sp_fractions(fo2, hep, n2p) ==
    Bind(RSub(One, fo2), LAMBDA total_he_n2 :
        [frac_he |-> RMul(RDiv(FromInt(hep), FromInt(100)), total_he_n2),
         frac_n2 |-> RMul(RDiv(FromInt(n2p), FromInt(100)), total_he_n2)])

\* the values one iteration of the loop of calculate_depth_for_gas_density
\* computes at depth d, and whether it leaves the loop
gd_iteration(fo2, fn2, fhe, target_density, d) ==
    Bind(PressureAtDepth(d), LAMBDA total_pressure :
    Bind(GasDensity(total_pressure, fo2, fn2, fhe), LAMBDA dens :
        [total_pressure |-> total_pressure,
         density |-> dens,
         reached |-> DensityReached(dens, target_density)]))

\* the values one iteration of the loop of calculate_depth_for_sp_and_density
\* computes at depth d, whether it raises and whether it returns; the values
\* after the raise are not computed by the code and not used by the model
sp_iteration(hep, n2p, sp, target_density, d) ==
    Bind(PressureAtDepth(d), LAMBDA ambient_pressure :
    Bind(RDiv(sp, ambient_pressure), LAMBDA fo2 :
    Bind(sp_fractions(fo2, hep, n2p), LAMBDA f :
    Bind(GasDensity(ambient_pressure, fo2, f.frac_n2, f.frac_he), LAMBDA dens :
        [ambient_pressure |-> ambient_pressure,
         frac_o2 |-> fo2,
         unreachable |-> SetPointUnreachable(fo2),
         frac_he |-> f.frac_he,
         frac_n2 |-> f.frac_n2,
         density |-> dens,
         reached |-> DensityReached(dens, target_density)]))))

VARIABLES trimix, pc, o2_percentage, he_percentage, n2_percentage,
          fn, status, target, set_point, depth, pressure,
          frac_o2, frac_he, frac_n2, density, result

vars == << trimix, pc, o2_percentage, he_percentage, n2_percentage,
           fn, status, target, set_point, depth, pressure,
           frac_o2, frac_he, frac_n2, density, result >>

mixVars == << trimix, pc, o2_percentage, he_percentage, n2_percentage >>

NoCall ==
    /\ fn = "none"
    /\ status = "idle"
    /\ target = Unbound
    /\ set_point = Unbound
    /\ depth = 0
    /\ pressure = Unbound
    /\ frac_o2 = Unbound
    /\ frac_he = Unbound
    /\ frac_n2 = Unbound
    /\ density = Unbound
    /\ result = Unbound

Init ==
    /\ trimix \in TrimixInputs
    /\ pc = "start"
    /\ o2_percentage = 0
    /\ he_percentage = 0
    /\ n2_percentage = 0
    /\ NoCall

\* o2_percentage, he_percentage, n2_percentage = parse_trimix(trimix_input)
Parse ==
    /\ pc = "start"
    /\ LET r == parse_trimix(trimix)
       IN  /\ pc' = IF r.raised THEN "parse_error" ELSE "parsed"
           /\ o2_percentage' = r.o2
           /\ he_percentage' = r.he
           /\ n2_percentage' = r.n2
    /\ UNCHANGED << trimix, fn, status, target, set_point, depth, pressure,
                    frac_o2, frac_he, frac_n2, density, result >>

CanCall == pc = "parsed" /\ status = "idle"

\* depth = calculate_depth_for_po2(po2, o2_percentage)
CallPO2 ==
    /\ CanCall
    /\ \E po2 \in TargetsPO2 :
          LET r == calculate_depth_for_po2(po2, o2_percentage)
          IN  /\ fn' = "po2"
              /\ target' = po2
              /\ status' = IF r.raised THEN "raised" ELSE "returned"
              /\ result' = r.value
    /\ UNCHANGED << mixVars, set_point, depth, pressure,
                    frac_o2, frac_he, frac_n2, density >>

\* depth_for_30m_end = find_depth_for_30m_end(n2_percentage)
CallEND ==
    /\ CanCall
    /\ LET r == find_depth_for_30m_end(n2_percentage)
       IN  /\ fn' = "end"
           /\ status' = IF r.raised THEN "raised" ELSE "returned"
           /\ result' = r.value
    /\ UNCHANGED << mixVars, target, set_point, depth, pressure,
                    frac_o2, frac_he, frac_n2, density >>

\* calculate_depth_for_gas_density(o2_percentage, he_percentage, target_density)
\* up to the loop
GDCall ==
    /\ CanCall
    /\ \E t \in TargetDensities : target' = t
    /\ fn' = "gd"
    /\ status' = "running"
    /\ LET f == gd_fractions(o2_percentage, he_percentage)
       IN  /\ frac_o2' = f.frac_o2
           /\ frac_he' = f.frac_he
           /\ frac_n2' = f.frac_n2
    /\ depth' = gd_initial_depth
    /\ UNCHANGED << mixVars, set_point, pressure, density, result >>

\* one iteration of the loop of calculate_depth_for_gas_density
GDStep ==
    /\ fn = "gd"
    /\ status = "running"
    /\ \E it \in { gd_iteration(frac_o2, frac_n2, frac_he, target, depth) } :
          /\ it.reached \/ depth < MaxDepth
          /\ pressure' = it.total_pressure
          /\ density' = it.density
          /\ status' = IF it.reached THEN "returned" ELSE status
          /\ result' = IF it.reached THEN FromInt(depth) ELSE result
          /\ depth' = IF it.reached THEN depth ELSE gd_next_depth(depth)
    /\ UNCHANGED << mixVars, fn, target, set_point, frac_o2, frac_he, frac_n2 >>

\* calculate_depth_for_sp_and_density(o2_percentage, he_percentage,
\* n2_percentage, setpoint, target_density) up to the loop
SPCall ==
    /\ CanCall
    /\ \E t \in TargetDensities : target' = t
    /\ \E sp \in SetPoints : set_point' = sp
    /\ fn' = "sp"
    /\ status' = "running"
    /\ depth' = sp_initial_depth
    /\ UNCHANGED << mixVars, pressure, frac_o2, frac_he, frac_n2, density, result >>

\* one iteration of the loop of calculate_depth_for_sp_and_density
SPStep ==
    /\ fn = "sp"
    /\ status = "running"
    /\ \E it \in { sp_iteration(he_percentage, n2_percentage, set_point, target, depth) } :
          /\ it.unreachable \/ it.reached \/ depth < MaxDepth
          /\ pressure' = it.ambient_pressure
          /\ frac_o2' = it.frac_o2
          /\ IF it.unreachable
             THEN /\ status' = "raised"
                  /\ UNCHANGED << depth, frac_he, frac_n2, density, result >>
             ELSE /\ frac_he' = it.frac_he
                  /\ frac_n2' = it.frac_n2
                  /\ density' = it.density
                  /\ status' = IF it.reached THEN "returned" ELSE status
                  /\ result' = IF it.reached THEN FromInt(depth) ELSE result
                  /\ depth' = IF it.reached THEN depth ELSE sp_next_depth(depth)
    /\ UNCHANGED << mixVars, fn, target, set_point >>

\* a call has returned to the driver, which goes on to its next call; an
\* exception is not caught and ends the program
NextCall ==
    /\ status = "returned"
    /\ fn' = "none"
    /\ status' = "idle"
    /\ target' = Unbound
    /\ set_point' = Unbound
    /\ depth' = 0
    /\ pressure' = Unbound
    /\ frac_o2' = Unbound
    /\ frac_he' = Unbound
    /\ frac_n2' = Unbound
    /\ density' = Unbound
    /\ result' = Unbound
    /\ UNCHANGED mixVars

Next ==
    \/ Parse
    \/ CallPO2
    \/ CallEND
    \/ GDCall
    \/ GDStep
    \/ SPCall
    \/ SPStep
    \/ NextCall

Spec == Init /\ [][Next]_vars

\* a running loop goes on running: the program is sequential
FairSpec == Spec /\ WF_vars(GDStep) /\ WF_vars(SPStep)

(***************************************************************************)
(* Helpers of the properties.                                              *)
(***************************************************************************)
DigitChar(n) ==
    CASE n = 0 -> "0" [] n = 1 -> "1" [] n = 2 -> "2" [] n = 3 -> "3"
      [] n = 4 -> "4" [] n = 5 -> "5" [] n = 6 -> "6" [] n = 7 -> "7"
      [] n = 8 -> "8" [] n = 9 -> "9"

RECURSIVE NatStr(_)
NatStr(n) == IF n < 10 THEN << DigitChar(n) >>
             ELSE NatStr(n \div 10) \o << DigitChar(n % 10) >>

\* the decimal numeral of an integer, as str() prints it
IntStr(n) == IF n < 0 THEN << "-" >> \o NatStr(-n) ELSE NatStr(n)

\* tok is the decimal numeral of some integer: no sign but "-", no leading
\* zero, no "-0"
IsNumeral(tok) ==
    LET body == IF Len(tok) > 0 /\ tok[1] = "-" THEN SubSeq(tok, 2, Len(tok)) ELSE tok
    IN  /\ Len(body) > 0
        /\ \A i \in 1..Len(body) : body[i] \in DigitChars
        /\ (Len(body) > 1 => body[1] # "0")
        /\ (body = << "0" >> => tok = body)

\* the number of separators in s
SlashCount(s) == Cardinality({ i \in 1..Len(s) : s[i] = "/" })

\* the part of s before and after its only separator
BeforeSlash(s) == SubSeq(s, 1, (CHOOSE i \in 1..Len(s) : s[i] = "/") - 1)
AfterSlash(s) == SubSeq(s, (CHOOSE i \in 1..Len(s) : s[i] = "/") + 1, Len(s))

\* a physically valid mix
ValidMix ==
    /\ o2_percentage >= 0
    /\ he_percentage >= 0
    /\ o2_percentage + he_percentage <= 100

(***************************************************************************)
(* C1: a successful parse_trimix of 'A/B', A and B integer numerals, gives *)
(* o2 = A, he = B, n2 = 100 - A - B; of a numeral A without '/', o2 = A,   *)
(* he = 0, n2 = 100 - A; every successful parse has o2 + he + n2 = 100;    *)
(* '18/35' gives (18, 35, 47), '50' gives (50, 0, 50), '21/0' (21, 0, 79). *)
(***************************************************************************)
C1_ParseResult ==
    pc = "parsed" =>
        /\ o2_percentage + he_percentage + n2_percentage = 100
        /\ (SlashCount(trimix) = 0 => he_percentage = 0)
        /\ ((SlashCount(trimix) = 0 /\ IsNumeral(trimix))
               => trimix = IntStr(o2_percentage))
        /\ ((SlashCount(trimix) = 1 /\ IsNumeral(BeforeSlash(trimix))
                                    /\ IsNumeral(AfterSlash(trimix)))
               => trimix = IntStr(o2_percentage) \o << "/" >> \o IntStr(he_percentage))
        /\ (trimix = << "1", "8", "/", "3", "5" >>
               => << o2_percentage, he_percentage, n2_percentage >> = << 18, 35, 47 >>)
        /\ (trimix = << "5", "0" >>
               => << o2_percentage, he_percentage, n2_percentage >> = << 50, 0, 50 >>)
        /\ (trimix = << "2", "1", "/", "0" >>
               => << o2_percentage, he_percentage, n2_percentage >> = << 21, 0, 79 >>)

C1_Witness ==
    /\ pc = "parsed"
    /\ trimix = << "1", "8", "/", "3", "5" >>
    /\ o2_percentage = 18
    /\ he_percentage = 35
    /\ n2_percentage = 47

(***************************************************************************)
(* C2: every mix a successful parse_trimix returns has                     *)
(* o2_percent + he_percent <= 100 and n2_percent >= 0.                     *)
(***************************************************************************)
C2_MixInvariant ==
    pc = "parsed" =>
        /\ o2_percentage + he_percentage <= 100
        /\ n2_percentage >= 0

(***************************************************************************)
(* C3: calculate_depth_for_gas_density returns the smallest integer        *)
(* d >= 0 with (1 + d/10) * (fracO2*1.429 + fracN2*1.2506 + fracHe*0.1786) *)
(* >= target, fracN2 = 1 - fracO2 - fracHe.  The density is stated here in *)
(* units of 1/5000000 g/l: 1.429 = 7145, 1.2506 = 6253, 0.1786 = 893 per   *)
(* percent and per tenth of an atmosphere.                                 *)
(***************************************************************************)
C3Density(d) ==
    (10 + d) * (o2_percentage * 7145
                + (100 - o2_percentage - he_percentage) * 6253
                + he_percentage * 893)

C3Meets(d) == C3Density(d) * target[2] >= target[1] * 5000000

C3_FirstDepthAtTarget ==
    (fn = "gd" /\ status = "returned") =>
        /\ result[2] = 1
        /\ result[1] >= 0
        /\ C3Meets(result[1])
        /\ \A d \in 0..(result[1] - 1) : ~C3Meets(d)

C3_Witness ==
    /\ fn = "gd"
    /\ status = "returned"
    /\ result[1] > 0
    /\ C3Meets(result[1])
    /\ ~C3Meets(result[1] - 1)

(***************************************************************************)
(* C4: calculate_depth_for_sp_and_density raises, and returns no depth,    *)
(* whenever set_point / ambient_pressure >= 1.0 at a tested depth          *)
(* (ambient_pressure = 1 + depth/10, so set_point >= ambient_pressure); a  *)
(* depth it returns was computed from an oxygen fraction below 1;          *)
(* set_point = 1.3 passes the test at 10 m with fracO2 = 0.65 and raises   *)
(* at no depth; set_point = 2.5 raises at 10 m.                            *)
(***************************************************************************)
C4_RaisesWhenUnreachable ==
    /\ [][(/\ fn = "sp"
           /\ status = "running"
           /\ RGeq(set_point, RAdd(One, Rat(depth, 10))))
             => (status' = "raised" /\ result' = Unbound)]_vars
    /\ []((fn = "sp" /\ status = "returned")
             => (/\ RLt(frac_o2, One)
                 /\ RLt(set_point, RAdd(One, Rat(result[1], 10)))))
    /\ []((fn = "sp" /\ set_point = Rat(13, 10))
             => (/\ status # "raised"
                 /\ (pressure = FromInt(2) => frac_o2 = Rat(65, 100))))
    /\ []((fn = "sp" /\ set_point = Rat(25, 10))
             => (status # "returned" /\ depth = 10))

C4_Witness ==
    /\ fn = "sp"
    /\ status = "raised"
    /\ set_point = Rat(25, 10)
    /\ pressure = FromInt(2)
    /\ result = Unbound

(***************************************************************************)
(* C5: at every depth calculate_depth_for_sp_and_density tests, fracO2 =   *)
(* set_point / ambient_pressure, fracHe + fracN2 = 1 - fracO2, and         *)
(* fracHe : fracN2 = he : n2 of the parsed mix.                            *)
(***************************************************************************)
C5_FullSplit ==
    (fn = "sp" /\ status # "raised" /\ frac_he # Unbound) =>
        /\ frac_o2 = RDiv(set_point, pressure)
        /\ RAdd(frac_he, frac_n2) = RSub(One, frac_o2)
        /\ RAdd(RAdd(frac_o2, frac_he), frac_n2) = One
        /\ RMul(frac_he, FromInt(n2_percentage)) = RMul(frac_n2, FromInt(he_percentage))

\* what the code keeps of C5: the oxygen fraction and the he : n2 ratio
C5_RatioOnly ==
    (fn = "sp" /\ status # "raised" /\ frac_he # Unbound) =>
        /\ frac_o2 = RDiv(set_point, pressure)
        /\ RMul(frac_he, FromInt(n2_percentage)) = RMul(frac_n2, FromInt(he_percentage))
        /\ RMul(RAdd(frac_he, frac_n2), FromInt(100))
              = RMul(RSub(One, frac_o2), FromInt(100 - o2_percentage))

(***************************************************************************)
(* C6: calculate_depth_for_po2 and find_depth_for_30m_end never raise, a   *)
(* percentage of 0 included; for a non-zero percentage the result is       *)
(* (target / (percent/100) - 1) * 10.                                      *)
(***************************************************************************)
C6_NeverRaises ==
    /\ (fn = "po2" =>
           /\ status # "raised"
           /\ (o2_percentage # 0 =>
                  result = RMul(RSub(RMul(target, Rat(100, o2_percentage)), One),
                                FromInt(10))))
    /\ (fn = "end" =>
           /\ status # "raised"
           /\ (n2_percentage # 0 =>
                  result = RMul(RSub(RMul(Rat(316, 100), Rat(100, n2_percentage)), One),
                                FromInt(10))))

\* what the code does on C6's cases: it raises exactly when the percentage
\* is 0, and returns the formula's value otherwise
C6_RaisesOnZero ==
    /\ (fn = "po2" =>
           /\ (status = "raised" <=> o2_percentage = 0)
           /\ (o2_percentage # 0 =>
                  result = RMul(RSub(RMul(target, Rat(100, o2_percentage)), One),
                                FromInt(10))))
    /\ (fn = "end" =>
           /\ (status = "raised" <=> n2_percentage = 0)
           /\ (n2_percentage # 0 =>
                  result = RMul(RSub(RMul(Rat(316, 100), Rat(100, n2_percentage)), One),
                                FromInt(10))))

(***************************************************************************)
(* C7: for every physically valid mix, pure oxygen included, every set     *)
(* point with 0 < set_point < 2.0 and every target density, the loop of    *)
(* calculate_depth_for_sp_and_density eventually returns a depth, because  *)
(* the density it computes grows from each tested depth to the next.       *)
(***************************************************************************)
C7_SPTerminates ==
    /\ (/\ fn = "sp"
        /\ status = "running"
        /\ ValidMix
        /\ RLt(Zero, set_point)
        /\ RLt(set_point, FromInt(2)))
           ~> (fn = "sp" /\ status = "returned")
    /\ [][(/\ fn = "sp"
           /\ status = "running"
           /\ ValidMix
           /\ RLt(Zero, set_point)
           /\ RLt(set_point, FromInt(2))
           /\ density # Unbound
           /\ density' # Unbound)
             => RLt(density, density')]_vars

\* the density calculate_depth_for_sp_and_density computes for pure oxygen
\* is set_point * 1.429 at every depth: the search for a larger target
\* never ends
C7_PureOxygenDensityConstant ==
    (fn = "sp" /\ o2_percentage = 100 /\ he_percentage = 0 /\ density # Unbound)
        => density = RMul(set_point, SPECIFIC_GRAVITY_O2)

\* the other valid mixes do return below MaxDepth
C7_OtherMixesTerminate ==
    (/\ fn = "sp"
     /\ status = "running"
     /\ ValidMix
     /\ o2_percentage < 100
     /\ RLt(Zero, set_point)
     /\ RLt(set_point, FromInt(2)))
        ~> (fn = "sp" /\ status = "returned")

(***************************************************************************)
(* C8: a depth d calculate_depth_for_sp_and_density returns is an integer, *)
(* d >= 10, the set-point-adjusted density at d is >= target and at every  *)
(* integer depth from 10 to d - 1 it is < target; depths below 10 are not  *)
(* tested.                                                                 *)
(***************************************************************************)
C8Density(d) ==
    LET ambient_pressure == RAdd(One, Rat(d, 10))
        fo2 == RDiv(set_point, ambient_pressure)
        total_he_n2 == RSub(One, fo2)
    IN  RMul(ambient_pressure,
             RAdd(RAdd(RMul(fo2, Rat(1429, 1000)),
                       RMul(RMul(Rat(n2_percentage, 100), total_he_n2), Rat(12506, 10000))),
                  RMul(RMul(Rat(he_percentage, 100), total_he_n2), Rat(1786, 10000))))

C8_FirstDepthFromTen ==
    /\ (fn = "sp" /\ status = "returned") =>
          /\ result[2] = 1
          /\ result[1] >= 10
          /\ RGeq(C8Density(result[1]), target)
          /\ \A d \in 10..(result[1] - 1) : RLt(C8Density(d), target)
    /\ (fn = "sp" /\ pressure # Unbound) => RGeq(pressure, FromInt(2))

C8_Witness ==
    /\ fn = "sp"
    /\ status = "returned"
    /\ result[1] > 10
    /\ RGeq(C8Density(result[1]), target)
    /\ RLt(C8Density(result[1] - 1), target)

\* the result is 10 although 9 m would already meet the target
C8_WitnessShallower ==
    /\ fn = "sp"
    /\ status = "returned"
    /\ result = FromInt(10)
    /\ RGeq(C8Density(9), target)

(***************************************************************************)
(* C9: for every physically valid mix and every target density the search  *)
(* of calculate_depth_for_gas_density terminates: the density per          *)
(* atmosphere is strictly positive and the density strictly increases from *)
(* one tested depth to the next.                                           *)
(***************************************************************************)
C9PerAtmosphere ==
    o2_percentage * 7145 + (100 - o2_percentage - he_percentage) * 6253
        + he_percentage * 893

C9_GDTerminates ==
    /\ (fn = "gd" /\ status = "running" /\ ValidMix)
          ~> (fn = "gd" /\ status = "returned")
    /\ []((pc = "parsed" /\ ValidMix) => C9PerAtmosphere > 0)
    /\ [][(fn = "gd" /\ status = "running" /\ ValidMix /\ density # Unbound
                       /\ density' # density)
             => RLt(density, density')]_vars

C9_Witness ==
    /\ fn = "gd"
    /\ status = "returned"
    /\ ValidMix
    /\ result[1] > 100

(***************************************************************************)
(* C10: calculate_depth_for_sp_and_density raises only at the first tested *)
(* depth, 10 m: it raises if and only if set_point >= 2.0, whatever the    *)
(* mix and the target; an iteration after the first never raises.          *)
(***************************************************************************)
C10_RaiseOnlyAtTenMetres ==
    /\ []((fn = "sp" /\ status = "raised")
             => (depth = 10 /\ RGeq(set_point, FromInt(2))))
    /\ []((fn = "sp" /\ RGeq(set_point, FromInt(2)))
             => (\/ status = "raised"
                 \/ (status = "running" /\ depth = 10 /\ pressure = Unbound)))
    /\ [][(fn = "sp" /\ status = "running" /\ pressure # Unbound)
             => status' # "raised"]_vars

C10_Witness ==
    /\ fn = "sp"
    /\ status = "raised"
    /\ set_point = FromInt(2)
    /\ depth = 10
====
